---- MODULE Spec2Model ----
(***************************************************************************)
(* Model of channels/generic/websocket.py: the WebSocket consumers         *)
(* (synchronous and asynchronous), their JSON variants and the             *)
(* AsyncJsonWebsocketDemultiplexer, which runs one child consumer per      *)
(* stream over a single physical connection.                               *)
(***************************************************************************)
EXTENDS Integers, Sequences, FiniteSets, TLC

(***************************************************************************)
(* JSON values and JSON text.                                              *)
(*                                                                         *)
(* A JSON value is a tagged tuple: <<"num", n>>, <<"str", s>>, <<"null">>, *)
(* <<"list", items>> or <<"obj", members>> where members is a sequence of  *)
(* <<key, value>> pairs with distinct keys (a Python dict, in insertion    *)
(* order).  JSON text is a sequence of tokens; encode_json writes the      *)
(* tokens of a value and decode_json parses them back, failing on a token  *)
(* sequence that is not one complete JSON document.                        *)
(***************************************************************************)
Num(n) == <<"num", n>>

Str(s) == <<"str", s>>

Null == <<"null">>

List(items) == <<"list", items>>

Obj(members) == <<"obj", members>>

LBrace == <<"{">>

RBrace == <<"}">>

LBracket == <<"[">>

RBracket == <<"]">>

Colon == <<":">>

Comma == <<",">>

IsDict(v) == v[1] = "obj"

\* `key in content` for a dict
HasKey(v, key) == \E i \in 1..Len(v[2]) : v[2][i][1] = key

\* content[key] for a dict that has the key
GetKey(v, key) == v[2][CHOOSE i \in 1..Len(v[2]) : v[2][i][1] = key][2]

RECURSIVE EncodeJoin(_, _)
RECURSIVE encode_json(_)
\* json.dumps(content)
encode_json(content) ==
    CASE content[1] = "num" -> << content >>
      [] content[1] = "str" -> << content >>
      [] content[1] = "null" -> << Null >>
      [] content[1] = "list" -> <<LBracket>> \o EncodeJoin(content[2], FALSE) \o <<RBracket>>
      [] content[1] = "obj" -> <<LBrace>> \o EncodeJoin(content[2], TRUE) \o <<RBrace>>

\* the comma separated items of a list, or key : value members of a dict
EncodeJoin(items, keyed) ==
    IF Len(items) = 0 THEN << >>
    ELSE LET first == IF keyed
                      THEN <<Str(items[1][1]), Colon>> \o encode_json(items[1][2])
                      ELSE encode_json(items[1])
         IN IF Len(items) = 1 THEN first
            ELSE first \o <<Comma>> \o EncodeJoin(Tail(items), keyed)

ParseFail == [ok |-> FALSE, val |-> Null, next |-> 0]

\* dict[key] = value: a repeated key keeps its place and takes the new value
PutKey(members, key, value) ==
    IF \E i \in 1..Len(members) : members[i][1] = key
    THEN [i \in 1..Len(members) |->
            IF members[i][1] = key THEN <<key, value>> ELSE members[i]]
    ELSE Append(members, <<key, value>>)

RECURSIVE ParseValue(_, _)
RECURSIVE ParseItems(_, _, _)
RECURSIVE ParseMembers(_, _, _)
\* the JSON value that starts at token i, and the position after it
ParseValue(text, i) ==
    IF i > Len(text) THEN ParseFail
    ELSE LET tok == text[i] IN
         CASE tok[1] \in {"num", "str"} -> [ok |-> TRUE, val |-> tok, next |-> i + 1]
           [] tok[1] = "null" -> [ok |-> TRUE, val |-> Null, next |-> i + 1]
           [] tok[1] = "[" ->
                IF i + 1 <= Len(text) /\ text[i + 1] = RBracket
                THEN [ok |-> TRUE, val |-> List(<< >>), next |-> i + 2]
                ELSE ParseItems(text, i + 1, << >>)
           [] tok[1] = "{" ->
                IF i + 1 <= Len(text) /\ text[i + 1] = RBrace
                THEN [ok |-> TRUE, val |-> Obj(<< >>), next |-> i + 2]
                ELSE ParseMembers(text, i + 1, << >>)
           [] OTHER -> ParseFail

ParseItems(text, i, acc) ==
    LET item == ParseValue(text, i) IN
    IF ~item.ok \/ item.next > Len(text) THEN ParseFail
    ELSE LET acc2 == Append(acc, item.val) IN
         CASE text[item.next] = RBracket ->
                [ok |-> TRUE, val |-> List(acc2), next |-> item.next + 1]
           [] text[item.next] = Comma -> ParseItems(text, item.next + 1, acc2)
           [] OTHER -> ParseFail

ParseMembers(text, i, acc) ==
    IF i + 1 > Len(text) \/ text[i][1] # "str" \/ text[i + 1] # Colon THEN ParseFail
    ELSE LET item == ParseValue(text, i + 2) IN
         IF ~item.ok \/ item.next > Len(text) THEN ParseFail
         ELSE LET acc2 == PutKey(acc, text[i][2], item.val) IN
              CASE text[item.next] = RBrace ->
                     [ok |-> TRUE, val |-> Obj(acc2), next |-> item.next + 1]
                [] text[item.next] = Comma -> ParseMembers(text, item.next + 1, acc2)
                [] OTHER -> ParseFail

\* json.loads(text_data): ok is FALSE when json.loads raises (a ValueError);
\* trailing tokens after the document are "Extra data"
decode_json(text_data) ==
    LET r == ParseValue(text_data, 1) IN
    IF r.ok /\ r.next = Len(text_data) + 1
    THEN [ok |-> TRUE, val |-> r.val]
    ELSE [ok |-> FALSE, val |-> Null]


(***************************************************************************)
(* Python values that a hook passes as close/code: None, True, False or an *)
(* int; text and bytes data are token sequences, and an argument left at   *)
(* None is a field that the call record does not have.                     *)
(***************************************************************************)
PyNone == <<"None">>

PyTrue == <<"bool", TRUE>>

PyFalse == <<"bool", FALSE>>

PyInt(n) == <<"int", n>>

\* Python truth value of None, a bool or an int
Truthy(v) ==
    CASE v[1] = "None" -> FALSE
      [] v[1] = "bool" -> v[2]
      [] v[1] = "int" -> v[2] # 0

BinaryData == << <<"bytes", 1>> >>

\* the steps of a handler in the order of its statements: the group loop
\* comes first, then the call of the hook, and the events are emitted by the
\* hook's body or by the except branch that follows the call
Trace(ops, hooks, out) ==
    [i \in 1..Len(ops) |-> <<"op", ops[i]>>]
    \o [i \in 1..Len(hooks) |-> <<"hook", hooks[i]>>]
    \o [i \in 1..Len(out) |-> <<"out", out[i]>>]

\* what a handler did: group operations issued, outbound events emitted,
\* application hooks invoked, and the exception it raised ("none": returned)
Result(ops, out, hooks, raised) ==
    [ops |-> ops, out |-> out, hooks |-> hooks, raised |-> raised,
     trace |-> Trace(ops, hooks, out)]

\* the `for group in self.groups` loop inside try/except AttributeError: a
\* channel layer without group support fails on the first group
\* the loop goes on without the group operations of the channel layer
GroupLoop_ignores_layer(groups, layer, op) ==
    IF Len(groups) = 0 \/ ~layer THEN [ops |-> << >>, raised |-> "none"]
    ELSE [ops |-> [i \in 1..Len(groups) |-> <<op, groups[i]>>], raised |-> "none"]

GroupLoop(groups, layer, op) ==
    IF Len(groups) = 0 THEN [ops |-> << >>, raised |-> "none"]
    ELSE IF ~layer THEN [ops |-> << >>, raised |-> "InvalidChannelLayerError"]
    ELSE [ops |-> [i \in 1..Len(groups) |-> <<op, groups[i]>>], raised |-> "none"]

(***************************************************************************)
(* Application hooks.  A connect hook is the base class's connect (which   *)
(* calls accept), or an override that raises AcceptConnection, raises      *)
(* DenyConnection, returns without doing anything, or fails.  A receive or *)
(* disconnect hook does nothing, calls send or close once, or fails.       *)
(***************************************************************************)
ConnectHooks == {"default", "AcceptConnection", "DenyConnection", "return", "error"}

(***************************************************************************)
(* WebsocketConsumer (synchronous)                                         *)
(***************************************************************************)
Sync_accept == << [type |-> "websocket.accept"] >>

Sync_close(code) ==
    IF code # PyNone /\ code # PyTrue
    THEN << [type |-> "websocket.close", code |-> code] >>
    ELSE << [type |-> "websocket.close"] >>

\* the close flag is honoured before the arguments are checked
Sync_send_close_anyway(call) ==
    IF "text_data" \in DOMAIN call
    THEN [out |-> << [type |-> "websocket.send", text |-> call.text_data] >>
                  \o (IF Truthy(call.close) THEN Sync_close(call.close) ELSE << >>),
          raised |-> "none"]
    ELSE IF "bytes_data" \in DOMAIN call
    THEN [out |-> << [type |-> "websocket.send", bytes |-> call.bytes_data] >>
                  \o (IF Truthy(call.close) THEN Sync_close(call.close) ELSE << >>),
          raised |-> "none"]
    ELSE [out |-> IF Truthy(call.close) THEN Sync_close(call.close) ELSE << >>,
          raised |-> "ValueError"]

\* send(text_data, bytes_data, close): the events emitted and the exception
Sync_send(call) ==
    IF "text_data" \in DOMAIN call
    THEN [out |-> << [type |-> "websocket.send", text |-> call.text_data] >>
                  \o (IF Truthy(call.close) THEN Sync_close(call.close) ELSE << >>),
          raised |-> "none"]
    ELSE IF "bytes_data" \in DOMAIN call
    THEN [out |-> << [type |-> "websocket.send", bytes |-> call.bytes_data] >>
                  \o (IF Truthy(call.close) THEN Sync_close(call.close) ELSE << >>),
          raised |-> "none"]
    ELSE [out |-> << >>, raised |-> "ValueError"]

\* JsonWebsocketConsumer.send_json
Sync_send_json(content, close) ==
    Sync_send([text_data |-> encode_json(content), close |-> close])

\* what the body of a receive or disconnect hook does
Sync_hook_body(hook) ==
    CASE hook.do = "noop" -> [out |-> << >>, raised |-> "none"]
      [] hook.do = "raise" -> [out |-> << >>, raised |-> "error"]
      [] hook.do = "send" -> Sync_send(hook.call)
      [] hook.do = "send_json" -> Sync_send_json(hook.content, hook.close)
      [] hook.do = "close" -> [out |-> Sync_close(hook.code), raised |-> "none"]

\* DenyConnection is handled like AcceptConnection
Sync_websocket_connect_deny_accepts(groups, layer, hook) ==
    LET g == GroupLoop(groups, layer, "group_add") IN
    IF g.raised # "none" THEN Result(g.ops, << >>, << >>, g.raised)
    ELSE CASE hook = "default" -> Result(g.ops, Sync_accept, << <<"connect", hook>> >>, "none")
           [] hook = "AcceptConnection" -> Result(g.ops, Sync_accept, << <<"connect", hook>> >>, "none")
           [] hook = "DenyConnection" ->
                Result(g.ops, Sync_accept, << <<"connect", hook>> >>, "none")
           [] hook = "return" -> Result(g.ops, << >>, << <<"connect", hook>> >>, "none")
           [] hook = "error" -> Result(g.ops, << >>, << <<"connect", hook>> >>, "error")

Sync_websocket_connect(groups, layer, hook) ==
    LET g == GroupLoop(groups, layer, "group_add") IN
    IF g.raised # "none" THEN Result(g.ops, << >>, << >>, g.raised)
    ELSE CASE hook = "default" -> Result(g.ops, Sync_accept, << <<"connect", hook>> >>, "none")
           [] hook = "AcceptConnection" -> Result(g.ops, Sync_accept, << <<"connect", hook>> >>, "none")
           [] hook = "DenyConnection" ->
                Result(g.ops, Sync_close(PyNone), << <<"connect", hook>> >>, "none")
           [] hook = "return" -> Result(g.ops, << >>, << <<"connect", hook>> >>, "none")
           [] hook = "error" -> Result(g.ops, << >>, << <<"connect", hook>> >>, "error")

\* a frame without text is handed to receive_json as null
Sync_json_receive_lenient(message, hook) ==
    LET b == Sync_hook_body(hook) IN
    IF "text" \in DOMAIN message /\ Len(message.text) > 0
    THEN LET d == decode_json(message.text) IN
         IF ~d.ok THEN Result(<< >>, << >>, << >>, "JSONDecodeError")
         ELSE Result(<< >>, b.out, << <<"receive_json", d.val>> >>, b.raised)
    ELSE Result(<< >>, b.out, << <<"receive_json", Null>> >>, b.raised)

\* JsonWebsocketConsumer.receive, whose hook is receive_json
Sync_json_receive(message, hook) ==
    IF "text" \in DOMAIN message /\ Len(message.text) > 0
    THEN LET d == decode_json(message.text) IN
         IF ~d.ok THEN Result(<< >>, << >>, << >>, "JSONDecodeError")
         ELSE LET b == Sync_hook_body(hook) IN
              Result(<< >>, b.out, << <<"receive_json", d.val>> >>, b.raised)
    ELSE Result(<< >>, << >>, << >>, "ValueError")

Sync_websocket_receive(json, message, hook) ==
    IF json THEN Sync_json_receive(message, hook)
    ELSE LET b == Sync_hook_body(hook) IN
         IF "text" \in DOMAIN message
         THEN Result(<< >>, b.out, << <<"receive", "text", message.text>> >>, b.raised)
         ELSE Result(<< >>, b.out, << <<"receive", "bytes", message.bytes>> >>, b.raised)

\* the disconnect hook is called before the groups are left
Sync_websocket_disconnect_hook_first(groups, layer, message, hook) ==
    LET g == GroupLoop(groups, layer, "group_discard")
        b == Sync_hook_body(hook)
        called == << <<"disconnect", message.code>> >>
        r == Result(g.ops, b.out, called,
                    IF b.raised # "none" THEN b.raised
                    ELSE IF g.raised # "none" THEN g.raised ELSE "StopConsumer")
    IN [r EXCEPT !.trace = Trace(<< >>, called, b.out) \o Trace(g.ops, << >>, << >>)]

Sync_websocket_disconnect(groups, layer, message, hook) ==
    LET g == GroupLoop(groups, layer, "group_discard") IN
    IF g.raised # "none" THEN Result(g.ops, << >>, << >>, g.raised)
    ELSE LET b == Sync_hook_body(hook) IN
         Result(g.ops, b.out, << <<"disconnect", message.code>> >>,
                IF b.raised # "none" THEN b.raised ELSE "StopConsumer")

(***************************************************************************)
(* AsyncWebsocketConsumer (asynchronous)                                   *)
(***************************************************************************)
Async_accept == << [type |-> "websocket.accept"] >>

\* the sentinel True is sent as a close code
Async_close_true_as_code(code) ==
    IF code # PyNone
    THEN << [type |-> "websocket.close", code |-> code] >>
    ELSE << [type |-> "websocket.close"] >>

Async_close(code) ==
    IF code # PyNone /\ code # PyTrue
    THEN << [type |-> "websocket.close", code |-> code] >>
    ELSE << [type |-> "websocket.close"] >>

\* when both text_data and bytes_data are given the bytes are sent
Async_send_bytes_first(call) ==
    IF "bytes_data" \in DOMAIN call
    THEN [out |-> << [type |-> "websocket.send", bytes |-> call.bytes_data] >>
                  \o (IF Truthy(call.close) THEN Async_close(call.close) ELSE << >>),
          raised |-> "none"]
    ELSE IF "text_data" \in DOMAIN call
    THEN [out |-> << [type |-> "websocket.send", text |-> call.text_data] >>
                  \o (IF Truthy(call.close) THEN Async_close(call.close) ELSE << >>),
          raised |-> "none"]
    ELSE [out |-> << >>, raised |-> "ValueError"]

Async_send(call) ==
    IF "text_data" \in DOMAIN call
    THEN [out |-> << [type |-> "websocket.send", text |-> call.text_data] >>
                  \o (IF Truthy(call.close) THEN Async_close(call.close) ELSE << >>),
          raised |-> "none"]
    ELSE IF "bytes_data" \in DOMAIN call
    THEN [out |-> << [type |-> "websocket.send", bytes |-> call.bytes_data] >>
                  \o (IF Truthy(call.close) THEN Async_close(call.close) ELSE << >>),
          raised |-> "none"]
    ELSE [out |-> << >>, raised |-> "ValueError"]

\* AsyncJsonWebsocketConsumer.send_json
Async_send_json(content, close) ==
    Async_send([text_data |-> encode_json(content), close |-> close])

Async_hook_body(hook) ==
    CASE hook.do = "noop" -> [out |-> << >>, raised |-> "none"]
      [] hook.do = "raise" -> [out |-> << >>, raised |-> "error"]
      [] hook.do = "send" -> Async_send(hook.call)
      [] hook.do = "send_json" -> Async_send_json(hook.content, hook.close)
      [] hook.do = "close" -> [out |-> Async_close(hook.code), raised |-> "none"]

Async_websocket_connect(groups, layer, hook) ==
    LET g == GroupLoop(groups, layer, "group_add") IN
    IF g.raised # "none" THEN Result(g.ops, << >>, << >>, g.raised)
    ELSE CASE hook = "default" -> Result(g.ops, Async_accept, << <<"connect", hook>> >>, "none")
           [] hook = "AcceptConnection" ->
                Result(g.ops, Async_accept, << <<"connect", hook>> >>, "none")
           [] hook = "DenyConnection" ->
                Result(g.ops, Async_close(PyNone), << <<"connect", hook>> >>, "none")
           [] hook = "return" -> Result(g.ops, << >>, << <<"connect", hook>> >>, "none")
           [] hook = "error" -> Result(g.ops, << >>, << <<"connect", hook>> >>, "error")

\* AsyncJsonWebsocketConsumer.receive, whose hook is receive_json
Async_json_receive(message, hook) ==
    IF "text" \in DOMAIN message /\ Len(message.text) > 0
    THEN LET d == decode_json(message.text) IN
         IF ~d.ok THEN Result(<< >>, << >>, << >>, "JSONDecodeError")
         ELSE LET b == Async_hook_body(hook) IN
              Result(<< >>, b.out, << <<"receive_json", d.val>> >>, b.raised)
    ELSE Result(<< >>, << >>, << >>, "ValueError")

Async_websocket_receive(json, message, hook) ==
    IF json THEN Async_json_receive(message, hook)
    ELSE LET b == Async_hook_body(hook) IN
         IF "text" \in DOMAIN message
         THEN Result(<< >>, b.out, << <<"receive", "text", message.text>> >>, b.raised)
         ELSE Result(<< >>, b.out, << <<"receive", "bytes", message.bytes>> >>, b.raised)

\* the handler returns after the hook instead of raising StopConsumer
Async_websocket_disconnect_no_stop(groups, layer, message, hook) ==
    LET g == GroupLoop(groups, layer, "group_discard") IN
    IF g.raised # "none" THEN Result(g.ops, << >>, << >>, g.raised)
    ELSE LET b == Async_hook_body(hook) IN
         Result(g.ops, b.out, << <<"disconnect", message.code>> >>, b.raised)

Async_websocket_disconnect(groups, layer, message, hook) ==
    LET g == GroupLoop(groups, layer, "group_discard") IN
    IF g.raised # "none" THEN Result(g.ops, << >>, << >>, g.raised)
    ELSE LET b == Async_hook_body(hook) IN
         Result(g.ops, b.out, << <<"disconnect", message.code>> >>,
                IF b.raised # "none" THEN b.raised ELSE "StopConsumer")


(***************************************************************************)
(* One consumer on its own connection.  The transport delivers connect,    *)
(* then receive events while the socket is accepted and not closed, then   *)
(* disconnect; the driving loop dispatches each event to its handler and   *)
(* stops at the first exception, StopConsumer included.                    *)
(***************************************************************************)
VARIABLES ccfg, cstate, cout, cops, chooks, craised, cframes, clast

plainVars == <<ccfg, cstate, cout, cops, chooks, craised, cframes, clast>>

\* clast is the event that the driving loop dispatched last, with the hook
\* of the application that its handler called and the steps of the handler
NoEvent == [message |-> [type |-> "none"], hook |-> "none", trace |-> << >>]

Dispatched(message, hook, r) == [message |-> message, hook |-> hook, trace |-> r.trace]

MaxPlainFrames == 1

GroupLists == {<< >>, <<"g1">>, <<"g1", "g2">>}

Text1 == encode_json(Num(1))

SendCalls ==
    { [text_data |-> Text1, close |-> PyFalse],
      [bytes_data |-> BinaryData, close |-> PyFalse],
      [text_data |-> Text1, bytes_data |-> BinaryData, close |-> PyFalse],
      [close |-> PyFalse],
      [close |-> PyTrue],
      [text_data |-> Text1, close |-> PyTrue],
      [text_data |-> Text1, close |-> PyInt(4000)],
      [text_data |-> Text1, close |-> PyInt(0)] }

CloseCodes == {PyNone, PyTrue, PyFalse, PyInt(4000), PyInt(0)}

HookBodies ==
    {[do |-> "noop"], [do |-> "raise"]}
    \cup {[do |-> "send", call |-> c] : c \in SendCalls}
    \cup {[do |-> "close", code |-> c] : c \in CloseCodes}
    \cup {[do |-> "send_json", content |-> Obj(<< <<"k", Num(2)>> >>), close |-> PyFalse]}

PlainFrames ==
    { [type |-> "websocket.receive", text |-> Text1],
      [type |-> "websocket.receive", text |-> << >>],
      [type |-> "websocket.receive", text |-> <<LBrace>>],
      [type |-> "websocket.receive", bytes |-> BinaryData] }

DisconnectCodes == {1000, 1006}

PlainInit ==
    /\ ccfg \in [variant : {"sync", "async"}, json : BOOLEAN,
                 groups : GroupLists, layer : BOOLEAN]
    /\ cstate = "init"
    /\ cout = << >>
    /\ cops = << >>
    /\ chooks = << >>
    /\ craised = "none"
    /\ cframes = 0
    /\ clast = NoEvent

\* the driving loop after a handler returned r
PlainApply(r) ==
    /\ cout' = cout \o r.out
    /\ cops' = cops \o r.ops
    /\ chooks' = chooks \o r.hooks
    /\ craised' = r.raised
    /\ cstate' = CASE r.raised = "none" -> "open"
                   [] r.raised = "StopConsumer" -> "stopped"
                   [] OTHER -> "failed"

Accepted(out) == \E i \in 1..Len(out) : out[i].type = "websocket.accept"

Closed(out) == \E i \in 1..Len(out) : out[i].type = "websocket.close"

PlainConnect(hook) ==
    /\ cstate = "init"
    /\ LET r == IF ccfg.variant = "sync"
                THEN Sync_websocket_connect(ccfg.groups, ccfg.layer, hook)
                ELSE Async_websocket_connect(ccfg.groups, ccfg.layer, hook)
       IN /\ PlainApply(r)
          /\ clast' = Dispatched([type |-> "websocket.connect"], hook, r)
    /\ UNCHANGED <<ccfg, cframes>>

PlainReceive(message, hook) ==
    /\ cstate = "open"
    /\ Accepted(cout) /\ ~Closed(cout)
    /\ cframes < MaxPlainFrames
    /\ cframes' = cframes + 1
    /\ LET r == IF ccfg.variant = "sync"
                THEN Sync_websocket_receive(ccfg.json, message, hook)
                ELSE Async_websocket_receive(ccfg.json, message, hook)
       IN /\ PlainApply(r)
          /\ clast' = Dispatched(message, hook, r)
    /\ UNCHANGED ccfg

PlainDisconnect(code, hook) ==
    /\ cstate = "open"
    /\ LET message == [type |-> "websocket.disconnect", code |-> code]
           r == IF ccfg.variant = "sync"
                THEN Sync_websocket_disconnect(ccfg.groups, ccfg.layer, message, hook)
                ELSE Async_websocket_disconnect(ccfg.groups, ccfg.layer, message, hook)
       IN /\ PlainApply(r)
          /\ clast' = Dispatched(message, hook, r)
    /\ UNCHANGED <<ccfg, cframes>>


(***************************************************************************)
(* AuthMiddleware (auth.py).  The scope is a dictionary: a function from   *)
(* the keys present to their values.  scope["user"] is either a value that *)
(* was there before the middleware was called or the SimpleLazyObject,     *)
(* written "lazy", whose wrapped value is `wrapped`: "none" while there is *)
(* no lazy object, "empty" until it is first used, then the user.          *)
(***************************************************************************)
VARIABLES scope, wrapped, astate, araised, ncalls, inner_calls, lookups, nreads

authVars == <<scope, wrapped, astate, araised, ncalls, inner_calls, lookups, nreads>>

\* the calls of the middleware with one scope
MaxAuthCalls == 2

\* the uses of the user of one scope
MaxReads == 2

\* d with the key set to the value
SetKey(d, key, value) ==
    [k \in DOMAIN d \cup {key} |-> IF k = key THEN value ELSE d[k]]

\* django.contrib.auth.get_user for a request with the session
auth_get_user(session) == "user_of_" \o session

\* get_user(scope): the user, the scope after the call and the number of
\* calls of auth.get_user
get_user(sc) ==
    IF "_cached_user" \notin DOMAIN sc
    THEN LET user == auth_get_user(sc["session"]) IN
         [user |-> user, scope |-> SetKey(sc, "_cached_user", user), looked |-> 1]
    ELSE [user |-> sc["_cached_user"], scope |-> sc, looked |-> 0]

\* the user key is set whether it is there or not
AuthMiddleware_call_overwrites(sc) ==
    IF "session" \notin DOMAIN sc
    THEN [raised |-> "ValueError", scope |-> sc, inner |-> 0, lazy |-> FALSE]
    ELSE [raised |-> "none", scope |-> SetKey(sc, "user", "lazy"), inner |-> 1,
          lazy |-> TRUE]

\* AuthMiddleware.__call__(scope): the exception, the scope after the call,
\* the calls of self.inner and whether a SimpleLazyObject was created
AuthMiddleware_call(sc) ==
    IF "session" \notin DOMAIN sc
    THEN [raised |-> "ValueError", scope |-> sc, inner |-> 0, lazy |-> FALSE]
    ELSE IF "user" \notin DOMAIN sc
    THEN [raised |-> "none", scope |-> SetKey(sc, "user", "lazy"), inner |-> 1,
          lazy |-> TRUE]
    ELSE [raised |-> "none", scope |-> sc, inner |-> 1, lazy |-> FALSE]

\* the scopes that the layers above the middleware hand to it
ScopeValues ==
    [session |-> {"s1", "s2"}, user |-> {"u0"}, path |-> {"/ws"},
     _cached_user |-> {"u9"}]

Scopes ==
    UNION { [K -> {"s1", "s2", "u0", "u9", "/ws"}] : K \in SUBSET DOMAIN ScopeValues }

AuthInit ==
    /\ scope \in { sc \in Scopes : \A k \in DOMAIN sc : sc[k] \in ScopeValues[k] }
    /\ wrapped = "none"
    /\ astate = "init"
    /\ araised = "none"
    /\ ncalls = 0
    /\ inner_calls = 0
    /\ lookups = 0
    /\ nreads = 0

\* the middleware is called with the scope of the connection
AuthCall ==
    /\ astate \in {"init", "called"}
    /\ ncalls < MaxAuthCalls
    /\ ncalls' = ncalls + 1
    /\ LET r == AuthMiddleware_call(scope) IN
       /\ scope' = r.scope
       /\ wrapped' = IF r.lazy THEN "empty" ELSE wrapped
       /\ araised' = r.raised
       /\ astate' = IF r.raised = "none" THEN "called" ELSE "failed"
       /\ inner_calls' = inner_calls + r.inner
    /\ UNCHANGED <<lookups, nreads>>

\* the inner application uses scope["user"]: a SimpleLazyObject that was not
\* used before calls get_user(scope) and keeps what it returns
UseUser ==
    /\ astate = "called"
    /\ nreads < MaxReads
    /\ nreads' = nreads + 1
    /\ IF scope["user"] = "lazy" /\ wrapped = "empty"
       THEN LET r == get_user(scope) IN
            /\ scope' = r.scope
            /\ wrapped' = r.user
            /\ lookups' = lookups + r.looked
       ELSE UNCHANGED <<scope, wrapped, lookups>>
    /\ UNCHANGED <<astate, araised, ncalls, inner_calls>>

\* the inner application calls get_user(scope) itself
CallGetUser ==
    /\ astate = "called"
    /\ nreads < MaxReads
    /\ nreads' = nreads + 1
    /\ LET r == get_user(scope) IN
       /\ scope' = r.scope
       /\ lookups' = lookups + r.looked
    /\ UNCHANGED <<wrapped, astate, araised, ncalls, inner_calls>>


(***************************************************************************)
(* AsyncJsonWebsocketDemultiplexer.                                        *)
(*                                                                         *)
(* The parent consumer owns the physical connection.  Every stream has an  *)
(* application; a child is a task running that application with its own    *)
(* upstream queue.  The state of the demultiplexer is gathered in a record *)
(* d that the handlers transform:                                          *)
(*   static       the streams whose application is started when the        *)
(*                connection opens; the others are started by the first    *)
(*                envelope that names them                                 *)
(*   tasks[s]     "none" (never spawned), "running", "hung" (inside a hook *)
(*                that never returns), "done" (ended by StopConsumer) or   *)
(*                "failed" (ended by an error); _child_application_tasks   *)
(*                holds the streams whose task has not completed           *)
(*   queue[s]     the events sent upstream to s and not yet processed      *)
(*   outbound     the events emitted on the physical connection            *)
(*   plog         what the parent's driving loop did, in order: entries    *)
(*                <<kind, who, detail, value>>                             *)
(*   clog[s]      what the tasks of stream s did, in order                 *)
(***************************************************************************)
VARIABLES dcfg, pstate, praised, pmsg, waited, elapsed, nframes,
          tasks, queue, outbound, plog, clog

demuxVars == <<dcfg, pstate, praised, pmsg, waited, elapsed, nframes,
               tasks, queue, outbound, plog, clog>>

vars == <<plainVars, demuxVars, authVars>>

Streams == {"a", "b"}

\* the order in which the streams are iterated
StreamOrder == <<"a", "b">>

\* the physical receive events of one connection
MaxFrames == 3

application_close_timeout == 5

D == [static |-> dcfg.static, tasks |-> tasks, queue |-> queue,
      outbound |-> outbound, plog |-> plog, clog |-> clog]

Entry(kind, who, detail, value) == <<kind, who, detail, value>>

\* _child_application_tasks: the streams whose task has not completed
Registry(d) == {s \in Streams : d.tasks[s] \in {"running", "hung"}}

\* start the application of a stream as a new task with an empty queue
Spawn(d, stream) ==
    [d EXCEPT !.tasks[stream] = "running",
              !.queue[stream] = << >>,
              !.plog = Append(@, Entry("spawn", stream, "", << >>)),
              !.clog[stream] = Append(@, Entry("spawn", stream, "", << >>))]

MessageText(message) == IF "text" \in DOMAIN message THEN message.text ELSE << >>

\* the text or bytes an event carries, for the logs
MessageData(message) ==
    IF "text" \in DOMAIN message THEN <<"text", message.text>>
    ELSE IF "bytes" \in DOMAIN message THEN <<"bytes", message.bytes>>
    ELSE << >>

\* Demultiplexer.send_upstream: queue the message for the stream's child,
\* spawning the child first when it is not running
send_upstream(d, stream, message) ==
    LET d1 == IF stream \in Registry(d) THEN d ELSE Spawn(d, stream) IN
    [d1 EXCEPT !.queue[stream] = Append(@, message),
               !.plog = Append(@, Entry("up", stream, message.type, MessageText(message)))]

RECURSIVE SpawnEach(_, _)
SpawnEach(d, order) ==
    IF Len(order) = 0 THEN d
    ELSE SpawnEach(IF Head(order) \in d.static /\ Head(order) \notin Registry(d)
                   THEN Spawn(d, Head(order)) ELSE d,
                   Tail(order))

RECURSIVE SendEach(_, _, _)
SendEach(d, order, message) ==
    IF Len(order) = 0 THEN d
    ELSE SendEach(IF Head(order) \in Registry(d)
                  THEN send_upstream(d, Head(order), message) ELSE d,
                  Tail(order), message)

\* Demultiplexer.send_to_all_upstream: the connect event starts the statically
\* declared streams; the message goes to every running child
send_to_all_upstream(d, message) ==
    SendEach(IF message.type = "websocket.connect" THEN SpawnEach(d, StreamOrder) ELSE d,
             StreamOrder, message)

\* AsyncConsumer.base_send: emit the events on the physical connection
base_send(d, events) == [d EXCEPT !.outbound = @ \o events]

\* the parent's own handler emits the events
ParentEmits(d, events) ==
    [d EXCEPT !.plog = @ \o [i \in 1..Len(events) |->
                               Entry("out", "parent", events[i].type, << >>)]]

Demux_websocket_connect(d, message) ==
    LET accept == << [type |-> "websocket.accept"] >> IN
    send_to_all_upstream(ParentEmits(base_send(d, accept), accept), message)

\* the payload key is not checked; a frame without it is routed with null
Demux_receive_json_unchecked(d, content) ==
    IF IsDict(content) /\ HasKey(content, "stream")
    THEN [d |-> send_upstream(d, GetKey(content, "stream")[2],
                    [type |-> "websocket.receive",
                     text |-> encode_json(IF HasKey(content, "payload")
                                          THEN GetKey(content, "payload") ELSE Null)]),
          raised |-> "none"]
    ELSE [d |-> d, raised |-> "ValueError"]

\* every envelope is routed to the first stream
Demux_receive_json_misrouted(d, content) ==
    IF IsDict(content) /\ HasKey(content, "stream") /\ HasKey(content, "payload")
    THEN [d |-> send_upstream(d, StreamOrder[1],
                    [type |-> "websocket.receive",
                     text |-> encode_json(GetKey(content, "payload"))]),
          raised |-> "none"]
    ELSE [d |-> d, raised |-> "ValueError"]

\* the whole envelope, not its payload, is sent on
Demux_receive_json_whole(d, content) ==
    IF IsDict(content) /\ HasKey(content, "stream") /\ HasKey(content, "payload")
    THEN [d |-> send_upstream(d, GetKey(content, "stream")[2],
                    [type |-> "websocket.receive", text |-> encode_json(content)]),
          raised |-> "none"]
    ELSE [d |-> d, raised |-> "ValueError"]

Demux_receive_json(d, content) ==
    IF IsDict(content) /\ HasKey(content, "stream") /\ HasKey(content, "payload")
    THEN [d |-> send_upstream(d, GetKey(content, "stream")[2],
                    [type |-> "websocket.receive",
                     text |-> encode_json(GetKey(content, "payload"))]),
          raised |-> "none"]
    ELSE [d |-> d, raised |-> "ValueError"]

\* websocket_receive and AsyncJsonWebsocketConsumer.receive of the parent:
\* a frame without text, or whose text is not JSON, fails before receive_json
Demux_websocket_receive(d, message) ==
    IF "text" \in DOMAIN message /\ Len(message.text) > 0
    THEN LET c == decode_json(message.text) IN
         IF c.ok THEN Demux_receive_json(d, c.val)
         ELSE [d |-> d, raised |-> "JSONDecodeError"]
    ELSE [d |-> d, raised |-> "ValueError"]

\* the child's text is forwarded as it is, without the envelope
Demux_websocket_send_raw(d, message, stream_name) ==
    IF "text" \notin DOMAIN message THEN [d |-> d, raised |-> "TypeError"]
    ELSE LET json == decode_json(message.text) IN
         IF ~json.ok THEN [d |-> d, raised |-> "JSONDecodeError"]
         ELSE LET r == Async_send_json(json.val, PyFalse) IN
              [d |-> base_send(d, r.out), raised |-> r.raised]

Demux_websocket_send(d, message, stream_name) ==
    IF "text" \notin DOMAIN message THEN [d |-> d, raised |-> "TypeError"]
    ELSE LET json == decode_json(message.text) IN
         IF ~json.ok THEN [d |-> d, raised |-> "JSONDecodeError"]
         ELSE LET data == Obj(<< <<"stream", Str(stream_name)>>,
                                 <<"payload", json.val>> >>)
                  r == Async_send_json(data, PyFalse)
              IN [d |-> base_send(d, r.out), raised |-> r.raised]

\* the child's accept is sent on to the physical connection
Demux_websocket_accept_forward(d, message, stream_name) ==
    [d |-> base_send(d, <<message>>), raised |-> "none"]

Demux_websocket_accept(d, message, stream_name) ==
    [d |-> d, raised |-> "none"]

\* the child's send callable: the parent's handler for the event type, run
\* inside the child's task with the child's stream name
dispatch_downstream(d, message, stream_name) ==
    LET d1 == [d EXCEPT !.clog[stream_name] =
                           Append(@, Entry("emit", stream_name, message.type,
                                           MessageData(message)))] IN
    IF message.type = "websocket.accept"
    THEN Demux_websocket_accept(d1, message, stream_name)
    ELSE Demux_websocket_send(d1, message, stream_name)

RECURSIVE EmitAll(_, _, _)
\* the child emits its events one after the other and stops at the first
\* one that the parent's handler rejects
EmitAll(d, events, stream_name) ==
    IF Len(events) = 0 THEN [d |-> d, raised |-> "none"]
    ELSE LET r == dispatch_downstream(d, Head(events), stream_name) IN
         IF r.raised # "none" THEN r
         ELSE EmitAll(r.d, Tail(events), stream_name)


(***************************************************************************)
(* The inputs of the demultiplexer model.                                  *)
(***************************************************************************)
Envelope(stream, payload) == Obj(<< <<"stream", Str(stream)>>, <<"payload", payload>> >>)

ValidEnvelopes ==
    { Envelope("a", Num(1)), Envelope("a", Num(2)),
      Obj(<< <<"payload", Obj(<< <<"k", Num(1)>> >>)>>, <<"stream", Str("b")>> >>) }

MalformedEnvelopes ==
    { Obj(<< <<"stream", Str("a")>> >>),
      Obj(<< <<"payload", Num(1)>> >>),
      List(<< Str("stream"), Str("payload") >>) }

DemuxFrames ==
    { [type |-> "websocket.receive", text |-> encode_json(v)] :
          v \in ValidEnvelopes \cup MalformedEnvelopes }
    \cup { [type |-> "websocket.receive", text |-> <<LBrace>>],
           [type |-> "websocket.receive", bytes |-> BinaryData] }

\* a child's application: the hooks that its consumer class runs for the
\* connect, receive and disconnect events.  The connect hook is the base
\* class hook, which accepts, one that fails or one that never returns; a
\* child that denies would emit a close, and the demultiplexer has no handler
\* for a child's close
App(connect, receive, disconnect) ==
    [connect |-> connect, receive_json |-> receive, disconnect |-> disconnect]

\* the bodies of the hooks: one that does nothing, one that fails, one that
\* never returns, one that sends a JSON message, and two that send what is
\* not JSON text
Noop == [do |-> "noop"]
Raise == [do |-> "raise"]
Hang == [do |-> "hang"]
Echo == [do |-> "send_json", content |-> Obj(<< <<"k", Num(2)>> >>), close |-> PyFalse]
RawText == [do |-> "send", call |-> [text_data |-> <<LBrace>>, close |-> PyFalse]]
RawBytes == [do |-> "send", call |-> [bytes_data |-> BinaryData, close |-> PyFalse]]

\* the application that answers every frame with a JSON message
EchoApp == App("default", Echo, Noop)

\* the applications of the children
ChildApps ==
    { EchoApp, App("default", Noop, Noop),
      App("default", RawText, Noop), App("default", RawBytes, Noop),
      App("default", Raise, Noop), App("error", Noop, Noop),
      App("default", Echo, Raise),
      App("hang", Noop, Noop), App("default", Hang, Noop),
      App("default", Echo, Hang) }

\* the disconnect hooks of the parent
DisconnectHooks == { Noop, Raise }

\* the groups the parent declares, whether its channel layer has groups, the
\* statically declared streams and the application of each stream; one
\* stream at least runs the echo application.  The last configuration
\* declares a group on a channel layer that has no group operations
DemuxConfigs ==
    { [groups |-> c.groups, layer |-> TRUE, static |-> c.static, apps |-> apps] :
          c \in { [groups |-> << >>, static |-> {"a", "b"}],
                  [groups |-> <<"g1">>, static |-> {}] },
          apps \in { f \in [Streams -> ChildApps] : \E s \in Streams : f[s] = EchoApp } }
    \cup { [groups |-> <<"g1">>, layer |-> FALSE, static |-> {},
            apps |-> [s \in Streams |-> EchoApp]] }

DemuxCodes == {1000}

DemuxInit ==
    /\ dcfg \in DemuxConfigs
    /\ pstate = "init"
    /\ praised = "none"
    /\ pmsg = [type |-> "none"]
    /\ waited = {}
    /\ elapsed = 0
    /\ nframes = 0
    /\ tasks = [s \in Streams |-> "none"]
    /\ queue = [s \in Streams |-> << >>]
    /\ outbound = << >>
    /\ plog = << >>
    /\ clog = [s \in Streams |-> << >>]

SetD(d) ==
    /\ tasks' = d.tasks
    /\ queue' = d.queue
    /\ outbound' = d.outbound
    /\ plog' = d.plog
    /\ clog' = d.clog

Logged(d, entry) == [d EXCEPT !.plog = Append(@, entry)]

HookEntries(who, hooks) ==
    [i \in 1..Len(hooks) |->
        Entry("hook", who, hooks[i][1], <<hooks[i][2]>>)]

\* the group operations that a handler issued
OpEntries(who, ops) ==
    [i \in 1..Len(ops) |-> Entry("op", who, ops[i][1], <<ops[i][2]>>)]

(***************************************************************************)
(* The parent's driving loop: one physical event at a time.                *)
(***************************************************************************)
DemuxConnect ==
    /\ pstate = "init"
    /\ LET message == [type |-> "websocket.connect"] IN
       SetD(Demux_websocket_connect(
                Logged(D, Entry("event", "parent", message.type, << >>)), message))
    /\ pstate' = "open"
    /\ UNCHANGED <<dcfg, praised, pmsg, waited, elapsed, nframes, plainVars, authVars>>

DemuxReceive(message) ==
    /\ pstate = "open"
    /\ nframes < MaxFrames
    /\ nframes' = nframes + 1
    /\ LET r == Demux_websocket_receive(
                    Logged(D, Entry("event", "parent", message.type, MessageData(message))),
                    message)
       IN /\ SetD(IF r.raised = "none" THEN r.d
                  ELSE Logged(r.d, Entry("raise", "parent", r.raised, << >>)))
          /\ praised' = r.raised
          /\ pstate' = IF r.raised = "none" THEN "open" ELSE "failed"
    /\ UNCHANGED <<dcfg, pmsg, waited, elapsed, plainVars, authVars>>

\* websocket_disconnect up to the await of asyncio.wait, which raises
\* ValueError when it is given no task
DemuxDisconnect(code) ==
    /\ pstate = "open"
    /\ LET message == [type |-> "websocket.disconnect", code |-> code]
           d1 == send_to_all_upstream(
                     Logged(D, Entry("event", "parent", message.type, <<Registry(D)>>)),
                     message)
       IN IF Registry(d1) = {}
          THEN /\ SetD(Logged(d1, Entry("raise", "parent", "ValueError", << >>)))
               /\ praised' = "ValueError"
               /\ pstate' = "failed"
               /\ UNCHANGED <<pmsg, waited, elapsed>>
          ELSE /\ SetD(d1)
               /\ pstate' = "joining"
               /\ pmsg' = message
               /\ waited' = Registry(d1)
               /\ elapsed' = 0
               /\ UNCHANGED praised
    /\ UNCHANGED <<dcfg, nframes, plainVars, authVars>>

\* a task of stream s has invoked the hook
HookInvoked(s, name) ==
    \E i \in 1..Len(clog[s]) : clog[s][i][1] = "hook" /\ clog[s][i][3] = name

AllCompleted == \A s \in waited : tasks[s] \in {"done", "failed"}

\* the wait returns at once, whatever the state of the tasks
WaitReturns_nowait == TRUE

\* asyncio.wait(tasks, return_when=ALL_COMPLETED, timeout=...) returns
WaitReturns == AllCompleted \/ elapsed >= application_close_timeout

\* one time unit passes while the parent waits for its children: the
\* children that can take a step take it without letting time pass, so the
\* tasks still unfinished when time passes are inside a hook that hangs
Tick ==
    /\ pstate = "joining"
    /\ ~WaitReturns
    /\ \A s \in Streams : tasks[s] = "running" => Len(queue[s]) = 0
    /\ elapsed' = elapsed + 1
    /\ UNCHANGED <<dcfg, pstate, praised, pmsg, waited, nframes,
                   tasks, queue, outbound, plog, clog, plainVars, authVars>>

\* websocket_disconnect after the wait: super().websocket_disconnect
DemuxJoin(hook) ==
    /\ pstate = "joining"
    /\ WaitReturns
    /\ LET r == Async_websocket_disconnect(dcfg.groups, dcfg.layer, pmsg, hook)
           d1 == Logged(D, Entry("join", "parent",
                                 IF AllCompleted THEN "completed" ELSE "timeout",
                                 [waited |-> waited, elapsed |-> elapsed,
                                  done |-> {s \in Streams : tasks[s] = "done"},
                                  failed |-> {s \in Streams : tasks[s] = "failed"},
                                  hooked |-> {s \in Streams : HookInvoked(s, "disconnect")}]))
           d2 == [d1 EXCEPT !.plog = @ \o OpEntries("parent", r.ops)
                                      \o HookEntries("parent", r.hooks)]
           d3 == Logged(ParentEmits(base_send(d2, r.out), r.out),
                        Entry("raise", "parent", r.raised, << >>))
       IN /\ SetD(d3)
          /\ praised' = r.raised
          /\ pstate' = IF r.raised = "StopConsumer" THEN "stopped" ELSE "failed"
    /\ UNCHANGED <<dcfg, pmsg, waited, elapsed, nframes, plainVars, authVars>>

(***************************************************************************)
(* A child's driving loop: it takes the next event of its queue and runs   *)
(* the handler; what the handler emits goes through the parent.            *)
(***************************************************************************)
ChildApply(s, message, r) ==
    LET d1 == [D EXCEPT !.queue[s] = Tail(@),
                        !.clog[s] = Append(@, Entry("handle", s, message.type, << >>))
                                    \o HookEntries(s, r.hooks)]
        e == EmitAll(d1, r.out, s)
        raised == IF e.raised # "none" THEN e.raised ELSE r.raised
        d2 == IF raised = "none" THEN e.d
              ELSE [e.d EXCEPT !.tasks[s] = IF raised = "StopConsumer"
                                            THEN "done" ELSE "failed",
                               !.clog[s] = Append(@, Entry("end", s, raised, << >>))]
    IN SetD(d2)

\* the children run as long as the parent's driving loop does
ChildReady(s, type) ==
    /\ pstate \in {"open", "joining"}
    /\ tasks[s] = "running"
    /\ Len(queue[s]) > 0
    /\ Head(queue[s]).type = type

ChildConnect(s, hook) ==
    /\ ChildReady(s, "websocket.connect")
    /\ hook # "hang"
    /\ ChildApply(s, Head(queue[s]), Async_websocket_connect(<< >>, TRUE, hook))
    /\ UNCHANGED <<dcfg, pstate, praised, pmsg, waited, elapsed, nframes, plainVars, authVars>>

ChildReceive(s, hook) ==
    /\ ChildReady(s, "websocket.receive")
    /\ hook # Hang
    /\ ChildApply(s, Head(queue[s]), Async_websocket_receive(TRUE, Head(queue[s]), hook))
    /\ UNCHANGED <<dcfg, pstate, praised, pmsg, waited, elapsed, nframes, plainVars, authVars>>

ChildDisconnect(s, hook) ==
    /\ ChildReady(s, "websocket.disconnect")
    /\ hook # Hang
    /\ ChildApply(s, Head(queue[s]),
                  Async_websocket_disconnect(<< >>, TRUE, Head(queue[s]), hook))
    /\ UNCHANGED <<dcfg, pstate, praised, pmsg, waited, elapsed, nframes, plainVars, authVars>>

HookName(type) ==
    CASE type = "websocket.connect" -> "connect"
      [] type = "websocket.receive" -> "receive_json"
      [] type = "websocket.disconnect" -> "disconnect"

\* what the handler of the event passes to the hook
HookArgument(message) ==
    CASE message.type = "websocket.connect" -> << >>
      [] message.type = "websocket.receive" -> << decode_json(message.text).val >>
      [] message.type = "websocket.disconnect" -> << message.code >>

\* the hook of the child's application for an event of the type never returns
Hangs(s, type) ==
    CASE type = "websocket.connect" -> dcfg.apps[s].connect = "hang"
      [] type = "websocket.receive" -> dcfg.apps[s].receive_json = Hang
      [] type = "websocket.disconnect" -> dcfg.apps[s].disconnect = Hang

\* the hook that the next event invokes never returns
ChildHang(s) ==
    /\ pstate \in {"open", "joining"}
    /\ tasks[s] = "running"
    /\ Len(queue[s]) > 0
    /\ Hangs(s, Head(queue[s]).type)
    /\ LET message == Head(queue[s]) IN
       SetD([D EXCEPT !.queue[s] = Tail(@),
                      !.tasks[s] = "hung",
                      !.clog[s] = @ \o << Entry("handle", s, message.type, << >>),
                                      Entry("hook", s, HookName(message.type),
                                            HookArgument(message)),
                                      Entry("hang", s, "", << >>) >>])
    /\ UNCHANGED <<dcfg, pstate, praised, pmsg, waited, elapsed, nframes, plainVars, authVars>>

(***************************************************************************)
(* Specifications.  Spec is the demultiplexer with its children; SpecPlain *)
(* is a single consumer on its own connection; SpecAuth is the middleware  *)
(* with the scope of one connection.                                       *)
(***************************************************************************)
PlainOff ==
    /\ ccfg = [variant |-> "async", json |-> TRUE, groups |-> << >>, layer |-> TRUE]
    /\ cstate = "off"
    /\ cout = << >>
    /\ cops = << >>
    /\ chooks = << >>
    /\ craised = "none"
    /\ cframes = 0
    /\ clast = NoEvent

DemuxOff ==
    /\ dcfg = [groups |-> << >>, layer |-> TRUE, static |-> {},
              apps |-> [s \in Streams |-> App("default", Noop, Noop)]]
    /\ pstate = "off"
    /\ praised = "none"
    /\ pmsg = [type |-> "none"]
    /\ waited = {}
    /\ elapsed = 0
    /\ nframes = 0
    /\ tasks = [s \in Streams |-> "none"]
    /\ queue = [s \in Streams |-> << >>]
    /\ outbound = << >>
    /\ plog = << >>
    /\ clog = [s \in Streams |-> << >>]

AuthOff ==
    /\ scope = << >>
    /\ wrapped = "none"
    /\ astate = "off"
    /\ araised = "none"
    /\ ncalls = 0
    /\ inner_calls = 0
    /\ lookups = 0
    /\ nreads = 0

Init == DemuxInit /\ PlainOff /\ AuthOff

Next ==
    \/ DemuxConnect
    \/ \E message \in DemuxFrames : DemuxReceive(message)
    \/ \E code \in DemuxCodes : DemuxDisconnect(code)
    \/ Tick
    \/ \E hook \in DisconnectHooks : DemuxJoin(hook)
    \/ \E s \in Streams : ChildConnect(s, dcfg.apps[s].connect)
    \/ \E s \in Streams : ChildReceive(s, dcfg.apps[s].receive_json)
    \/ \E s \in Streams : ChildDisconnect(s, dcfg.apps[s].disconnect)
    \/ \E s \in Streams : ChildHang(s)

Spec == Init /\ [][Next]_vars

InitPlain == PlainInit /\ DemuxOff /\ AuthOff

NextPlain ==
    \/ \E hook \in ConnectHooks : PlainConnect(hook) /\ UNCHANGED <<demuxVars, authVars>>
    \/ \E message \in PlainFrames, hook \in HookBodies :
           PlainReceive(message, hook) /\ UNCHANGED <<demuxVars, authVars>>
    \/ \E code \in DisconnectCodes, hook \in HookBodies :
           PlainDisconnect(code, hook) /\ UNCHANGED <<demuxVars, authVars>>

SpecPlain == InitPlain /\ [][NextPlain]_vars

InitAuth == AuthInit /\ PlainOff /\ DemuxOff

NextAuth ==
    \/ AuthCall /\ UNCHANGED <<plainVars, demuxVars>>
    \/ UseUser /\ UNCHANGED <<plainVars, demuxVars>>
    \/ CallGetUser /\ UNCHANGED <<plainVars, demuxVars>>

SpecAuth == InitAuth /\ [][NextAuth]_vars

\* a connection of either kind
InitAny == Init \/ InitPlain

NextAny == Next \/ NextPlain

SpecAny == InitAny /\ [][NextAny]_vars


(***************************************************************************)
(* Properties.                                                             *)
(***************************************************************************)
IsHandle(e, type) == e[1] = "handle" /\ e[3] = type

IsEvent(e, type) == e[1] = "event" /\ e[3] = type

IsUp(e, s, type) == e[1] = "up" /\ e[2] = s /\ e[3] = type

Joins == {i \in 1..Len(plog) : plog[i][1] = "join"}

CountOut(type) == Cardinality({i \in 1..Len(outbound) : outbound[i].type = type})

\* C1: every receive event that a child's driving loop dispatches comes after
\* a connect event processed by the same child task, and a task that has
\* ended dispatches nothing more.
C1_ReceiveAfterConnect ==
    \A s \in Streams : \A i \in 1..Len(clog[s]) :
        /\ IsHandle(clog[s][i], "websocket.receive") =>
              \E j \in 1..(i - 1) :
                  /\ IsHandle(clog[s][j], "websocket.connect")
                  /\ \A k \in j..i : clog[s][k][1] # "spawn"
        /\ (clog[s][i][1] = "end" /\ i < Len(clog[s])) => clog[s][i + 1][1] = "spawn"

\* the disconnect event was sent upstream to every child that was running
\* when it arrived, before the join at plog[i]
FannedOutBefore(i) ==
    \E e \in 1..(i - 1) :
        /\ IsEvent(plog[e], "websocket.disconnect")
        /\ \A s \in plog[e][4][1] :
              \E u \in (e + 1)..(i - 1) : IsUp(plog[u], s, "websocket.disconnect")
        /\ plog[i][4].waited = plog[e][4][1]

\* C2 (as stated): the disconnect is fanned out to every running child before
\* the join, and when all the children have finished at the join, every
\* child's disconnect hook was invoked before the parent's hook starts.
C2_AllHooksBeforeParent ==
    \A i \in Joins :
        /\ FannedOutBefore(i)
        /\ plog[i][4].waited \subseteq (plog[i][4].done \cup plog[i][4].failed)
              => plog[i][4].waited \subseteq plog[i][4].hooked

\* C2 (amended): the disconnect is fanned out to every running child before
\* the join; the parent's hook starts before the timeout has elapsed only
\* when all the children have finished; and every child that ended by its
\* stop signal had its disconnect hook invoked before the parent's hook
\* starts.  A child that ended with an error raised while it processed an
\* earlier event has finished without invoking its disconnect hook.
C2_StoppedChildrenHookedBeforeParent ==
    \A i \in Joins :
        /\ FannedOutBefore(i)
        /\ plog[i][4].elapsed < application_close_timeout
              => plog[i][4].waited \subseteq (plog[i][4].done \cup plog[i][4].failed)
        /\ (plog[i][4].waited \cap plog[i][4].done) \subseteq plog[i][4].hooked

\* both children were running, finished in time and ran their disconnect hook
\* before the parent ran its own
C2_Witness ==
    \E i \in Joins :
        /\ plog[i][4].waited = Streams
        /\ plog[i][4].done = Streams
        /\ plog[i][4].hooked = Streams
        /\ plog[i][4].elapsed < application_close_timeout
        /\ i < Len(plog) /\ plog[i + 1][1] = "hook"

\* C3: once the disconnect event has reached the demultiplexer and its
\* handler has ended, the parent's disconnect hook was invoked and the
\* handler ended with the stop signal (or with the error of the hook itself),
\* whatever the number of running children.
C3_DisconnectReachesParentHook ==
    (pstate # "joining" /\ \E e \in 1..Len(plog) : IsEvent(plog[e], "websocket.disconnect"))
        => /\ \E h \in 1..Len(plog) : plog[h][1] = "hook" /\ plog[h][3] = "disconnect"
           /\ praised \in {"StopConsumer", "error"}

RECURSIVE SumOver(_, _)
SumOver(S, f) ==
    IF S = {} THEN 0
    ELSE LET x == CHOOSE y \in S : TRUE IN f[x] + SumOver(S \ {x}, f)

IsEmit(e, type) == e[1] = "emit" /\ e[3] = type

\* the sends of the tasks of stream s whose text is JSON
JsonSends(s) ==
    {i \in 1..Len(clog[s]) :
        /\ IsEmit(clog[s][i], "websocket.send")
        /\ clog[s][i][4][1] = "text"
        /\ decode_json(clog[s][i][4][2]).ok}

ParentOuts == {i \in 1..Len(plog) : plog[i][1] = "out"}

\* C4: the handler of the physical connect event emits the accept first and
\* then fans the connect out; the connection carries exactly one accept, and
\* every outbound event is either emitted by a handler of the parent itself
\* or is the re-wrapped send of a child: the accepts of the children add
\* nothing.
C4_SingleAccept ==
    pstate \notin {"init", "off"} =>
        /\ Len(plog) >= 2
        /\ IsEvent(plog[1], "websocket.connect")
        /\ plog[2][1] = "out" /\ plog[2][3] = "websocket.accept"
        /\ outbound[1].type = "websocket.accept"
        /\ CountOut("websocket.accept") = 1
        /\ Len(outbound) = Cardinality(ParentOuts)
                           + SumOver(Streams, [s \in Streams |-> Cardinality(JsonSends(s))])

\* both children have emitted their accept and the connection carries one
C4_Witness ==
    /\ \A s \in Streams :
          \E i \in 1..Len(clog[s]) : IsEmit(clog[s][i], "websocket.accept")
    /\ CountOut("websocket.accept") = 1
    /\ plog[3][1] = "spawn"


\* the physical receive events whose text decodes to some JSON value
DecodedFrames ==
    {i \in 1..Len(plog) :
        /\ IsEvent(plog[i], "websocket.receive")
        /\ plog[i][4][1] = "text"
        /\ decode_json(plog[i][4][2]).ok}

FrameValue(i) == decode_json(plog[i][4][2]).val

IsEnvelope(v) == IsDict(v) /\ HasKey(v, "stream") /\ HasKey(v, "payload")

ValidFrames == {i \in DecodedFrames : IsEnvelope(FrameValue(i))}

\* what the handler of the physical event at plog[i] logged
HandlerEntries(i) ==
    {j \in (i + 1)..Len(plog) : \A k \in (i + 1)..j : plog[k][1] # "event"}

\* C5: for every valid envelope {stream: s, payload: p}, the handler sends
\* exactly one event upstream: a receive event, to the child of s, whose text
\* decodes to p.
C5_EnvelopeRouted ==
    \A i \in ValidFrames :
        LET ups == {j \in HandlerEntries(i) : plog[j][1] = "up"} IN
        /\ Cardinality(ups) = 1
        /\ \A j \in ups :
              /\ IsUp(plog[j], GetKey(FrameValue(i), "stream")[2], "websocket.receive")
              /\ decode_json(plog[j][4]) =
                    [ok |-> TRUE, val |-> GetKey(FrameValue(i), "payload")]

\* an envelope for b with an object payload was routed to b, which was
\* spawned for it, and b's receive_json hook was given the payload
C5_Witness ==
    \E i \in ValidFrames :
        /\ FrameValue(i) = Obj(<< <<"payload", Obj(<< <<"k", Num(1)>> >>)>>,
                                  <<"stream", Str("b")>> >>)
        /\ plog[i + 1][1] = "spawn"
        /\ IsUp(plog[i + 2], "b", "websocket.receive")
        /\ \E h \in 1..Len(clog["b"]) :
              /\ clog["b"][h][1] = "hook" /\ clog["b"][h][3] = "receive_json"
              /\ clog["b"][h][4][1] = Obj(<< <<"k", Num(1)>> >>)

\* the outbound sends of the physical connection that carry an envelope of
\* stream s, in order
OutboundFor(s) ==
    LET Mine(o) == /\ o.type = "websocket.send"
                   /\ "text" \in DOMAIN o
                   /\ decode_json(o.text).ok
                   /\ IsEnvelope(decode_json(o.text).val)
                   /\ GetKey(decode_json(o.text).val, "stream") = Str(s)
    IN SelectSeq(outbound, Mine)

\* the sends emitted by the tasks of stream s, in order
SendsOf(s) ==
    LET Mine(e) == IsEmit(e, "websocket.send") IN SelectSeq(clog[s], Mine)

\* those whose text is JSON
JsonSendsOf(s) ==
    LET Mine(e) == /\ IsEmit(e, "websocket.send")
                   /\ e[4][1] = "text"
                   /\ decode_json(e[4][2]).ok
    IN SelectSeq(clog[s], Mine)

\* every outbound send carries the envelope of some stream
AllSendsWrapped ==
    CountOut("websocket.send") = SumOver(Streams, [s \in Streams |-> Len(OutboundFor(s))])

\* the outbound sends of stream s are the envelopes of the sends in emitted
Rewrapped(s, emitted) ==
    LET out == OutboundFor(s) IN
    /\ Len(out) = Len(emitted)
    /\ \A i \in 1..Len(emitted) :
          /\ emitted[i][4][1] = "text"
          /\ decode_json(emitted[i][4][2]).ok
          /\ i <= Len(out)
          /\ decode_json(out[i].text).val
                = Envelope(s, decode_json(emitted[i][4][2]).val)

\* C6 (as stated): every send that a child of stream s emits results in
\* exactly one outbound send whose text decodes to {stream: s, payload: v},
\* and no other send reaches the physical connection.
C6_EverySendRewrapped ==
    /\ AllSendsWrapped
    /\ \A s \in Streams : Rewrapped(s, SendsOf(s))

\* C6 (amended): every send of a child of stream s whose text is JSON results
\* in exactly one outbound send whose text decodes to {stream: s, payload: v},
\* and no other send reaches the physical connection; a send that carries
\* bytes, or text that is not JSON, emits nothing and fails in the child.
C6_JsonSendRewrapped ==
    /\ AllSendsWrapped
    /\ \A s \in Streams : Rewrapped(s, JsonSendsOf(s))
    /\ \A s \in Streams : \A i \in 1..Len(clog[s]) :
          (IsEmit(clog[s][i], "websocket.send") /\ i \notin JsonSends(s))
              => /\ i < Len(clog[s])
                 /\ clog[s][i + 1][1] = "end"
                 /\ clog[s][i + 1][3] \in {"TypeError", "JSONDecodeError"}

\* both children have sent a value that went out under their own stream name
C6_Witness ==
    /\ Len(OutboundFor("a")) >= 1
    /\ Len(OutboundFor("b")) >= 1
    /\ decode_json(OutboundFor("a")[1].text).val
          = Envelope("a", Obj(<< <<"k", Num(2)>> >>))

\* C7: a decoded frame that is not an object, or lacks the stream key or the
\* payload key, ends the parent's receive handler with ValueError; the
\* handler sends nothing upstream and spawns nothing.
C7_MalformedRejected ==
    \A i \in DecodedFrames \ ValidFrames :
        /\ Len(plog) = i + 1
        /\ plog[i + 1][1] = "raise" /\ plog[i + 1][3] = "ValueError"
        /\ pstate = "failed" /\ praised = "ValueError"

\* the frame {"stream": "a"} was received while a was running, and rejected
C7_Witness ==
    /\ pstate = "failed"
    /\ \E i \in DecodedFrames :
          /\ FrameValue(i) = Obj(<< <<"stream", Str("a")>> >>)
          /\ i + 1 = Len(plog)
    /\ tasks["a"] = "running"

RECURSIVE IsSubseq(_, _)
\* o is a subsequence of a: the elements of o appear in a in the same order
IsSubseq(o, a) ==
    IF Len(o) = 0 THEN TRUE
    ELSE IF Len(a) = 0 THEN FALSE
    ELSE IF Head(o) = Head(a) THEN IsSubseq(Tail(o), Tail(a))
    ELSE IsSubseq(o, Tail(a))

\* the payloads of the envelopes of stream s, in the order of arrival
Arrived(s) ==
    LET Mine(e) == /\ IsEvent(e, "websocket.receive")
                   /\ e[4][1] = "text"
                   /\ decode_json(e[4][2]).ok
                   /\ IsEnvelope(decode_json(e[4][2]).val)
                   /\ GetKey(decode_json(e[4][2]).val, "stream") = Str(s)
        arrived == SelectSeq(plog, Mine)
    IN [i \in 1..Len(arrived) |-> GetKey(decode_json(arrived[i][4][2]).val, "payload")]

\* the payloads given to the receive_json hook of the tasks of stream s
Observed(s) ==
    LET Mine(e) == e[1] = "hook" /\ e[3] = "receive_json"
        observed == SelectSeq(clog[s], Mine)
    IN [i \in 1..Len(observed) |-> observed[i][4][1]]

\* C8: the child of each stream observes the payloads of its own envelopes in
\* the order in which the envelopes arrived on the physical connection.
C8_PerStreamOrder == \A s \in Streams : IsSubseq(Observed(s), Arrived(s))

\* envelopes arrived in the order a, b, a and each child has seen all of its
\* own
C8_Witness ==
    /\ Observed("a") = << Num(1), Num(2) >>
    /\ Len(Observed("b")) = 1
    /\ \E i, j, k \in ValidFrames :
          /\ i < j /\ j < k
          /\ GetKey(FrameValue(i), "stream") = Str("a")
          /\ GetKey(FrameValue(j), "stream") = Str("b")
          /\ GetKey(FrameValue(k), "stream") = Str("a")

\* C9: when a child has failed, the parent connection still processes its
\* events as it would have: its handlers end with an error only for a frame
\* of its own that is not acceptable or for an error of its own hook, so the
\* handler of the disconnect event reaches the parent's disconnect hook.
C9_ChildFailureIsolated ==
    (\E s \in Streams : tasks[s] = "failed") =>
        \A e \in 1..Len(plog) :
            (IsEvent(plog[e], "websocket.disconnect") /\ e < Len(plog))
                => ~(plog[e + 1][1] = "raise" /\ plog[e + 1][3] = "ValueError")

\* C10: when the connect hook raises AcceptConnection the connect handler
\* emits an accept, when it raises DenyConnection it emits a close and no
\* accept, and in both cases the handler returns normally.
C10_AcceptDenySignals ==
    [][(cstate = "init" /\ Len(chooks') = 1) =>
          /\ chooks'[1][2] = "AcceptConnection" =>
                /\ cout' = << [type |-> "websocket.accept"] >>
                /\ craised' = "none"
          /\ chooks'[1][2] = "DenyConnection" =>
                /\ cout' = << [type |-> "websocket.close"] >>
                /\ craised' = "none"]_vars

\* a synchronous consumer whose connect hook raised DenyConnection has
\* emitted a single close, with its groups joined
C10_Witness ==
    /\ ccfg.variant = "sync"
    /\ cstate = "open"
    /\ chooks = << <<"connect", "DenyConnection">> >>
    /\ cout = << [type |-> "websocket.close"] >>
    /\ Len(cops) = 2

\* C11: when the connect hook returns normally, raising neither
\* AcceptConnection nor DenyConnection, the connect handler has emitted an
\* accept.
C11_ReturnAccepts ==
    [][(cstate = "init" /\ Len(chooks') = 1
            /\ chooks'[1][2] \in {"default", "return"})
          => Accepted(cout')]_vars

\* in the steps tr of a handler, every call of a hook comes after the
\* operation op on each of the groups
GroupOpsBeforeHook(tr, groups, op) ==
    \A h \in 1..Len(tr) :
        tr[h][1] = "hook" =>
            \A g \in 1..Len(groups) :
                \E i \in 1..(h - 1) : tr[i][1] = "op" /\ tr[i][2] = <<op, groups[g]>>

\* C12: in the handler of a connect event, group_add was issued for every
\* declared group before the connect hook is called; in the handler of a
\* disconnect event, group_discard was issued for every declared group before
\* the disconnect hook is called.
C12_GroupsBeforeHook ==
    [][/\ cstate = "init" /\ clast'.message.type = "websocket.connect"
            => GroupOpsBeforeHook(clast'.trace, ccfg.groups, "group_add")
       /\ cstate = "open" /\ clast'.message.type = "websocket.disconnect"
            => GroupOpsBeforeHook(clast'.trace, ccfg.groups, "group_discard")]_vars

\* a synchronous consumer with two groups has left both and then called its
\* disconnect hook
C12_Witness ==
    /\ ccfg.variant = "sync"
    /\ ccfg.groups = <<"g1", "g2">>
    /\ clast.message.type = "websocket.disconnect"
    /\ Len(clast.trace) >= 3
    /\ clast.trace[1] = <<"op", <<"group_discard", "g1">> >>
    /\ clast.trace[2] = <<"op", <<"group_discard", "g2">> >>
    /\ clast.trace[3] = <<"hook", <<"disconnect", clast.message.code>> >>
    /\ craised = "StopConsumer"

\* the parent issued the group operation op on the group at plog[i]
IsGroupOp(i, op) == plog[i][1] = "op" /\ plog[i][3] = op

\* C13: once the demultiplexer parent has processed the connect event it has
\* issued group_add for each declared group, and every group_discard that it
\* issues is for a group that it added before.
C13_DiscardOnlyAdded ==
    /\ pstate \notin {"off", "init"} =>
          \A g \in 1..Len(dcfg.groups) :
              \E i \in 1..Len(plog) :
                  IsGroupOp(i, "group_add") /\ plog[i][4] = <<dcfg.groups[g]>>
    /\ \A i \in 1..Len(plog) :
          IsGroupOp(i, "group_discard") =>
              \E j \in 1..(i - 1) :
                  IsGroupOp(j, "group_add") /\ plog[j][4] = plog[i][4]

\* what the body of the application's hook does, for the consumer's variant
HookBody(hook) ==
    IF ccfg.variant = "sync" THEN Sync_hook_body(hook) ELSE Async_hook_body(hook)

\* the group loop of the consumer fails
GroupsFail == Len(ccfg.groups) > 0 /\ ~ccfg.layer

\* C14: the handler of a disconnect event whose group operations do not fail
\* calls the disconnect hook once, with the close code of the event; it emits
\* nothing but what the hook emits; when the hook returns it ends with
\* StopConsumer and in no other way, and when the hook fails it ends with the
\* hook's error.
C14_DisconnectStops ==
    [][(cstate = "open" /\ clast'.message.type = "websocket.disconnect" /\ ~GroupsFail) =>
          LET b == HookBody(clast'.hook) IN
          /\ chooks' = Append(chooks, <<"disconnect", clast'.message.code>>)
          /\ cout' = cout \o b.out
          /\ b.raised = "none" => craised' = "StopConsumer" /\ cstate' = "stopped"
          /\ b.raised # "none" => craised' = b.raised /\ cstate' = "failed"]_vars

\* an asynchronous consumer has processed a disconnect with code 1006: its
\* hook was called with 1006 and returned, nothing was emitted after the
\* accept, and the handler ended with StopConsumer
C14_Witness ==
    /\ ccfg.variant = "async"
    /\ clast.message.type = "websocket.disconnect"
    /\ clast.message.code = 1006
    /\ clast.hook = [do |-> "noop"]
    /\ chooks = << <<"connect", "default">>, <<"disconnect", 1006>> >>
    /\ cout = << [type |-> "websocket.accept"] >>
    /\ craised = "StopConsumer"
    /\ cstate = "stopped"

\* the parent's handler of the disconnect event has gone past its wait
Joined == \E i \in 1..Len(plog) : plog[i][1] = "join"

HandlerOf(variant, message, hook) ==
    CASE message.type = "websocket.connect" ->
           IF variant = "sync"
           THEN Sync_websocket_connect(ccfg.groups, ccfg.layer, hook)
           ELSE Async_websocket_connect(ccfg.groups, ccfg.layer, hook)
      [] message.type = "websocket.receive" ->
           IF variant = "sync"
           THEN Sync_websocket_receive(ccfg.json, message, hook)
           ELSE Async_websocket_receive(ccfg.json, message, hook)
      [] message.type = "websocket.disconnect" ->
           IF variant = "sync"
           THEN Sync_websocket_disconnect(ccfg.groups, ccfg.layer, message, hook)
           ELSE Async_websocket_disconnect(ccfg.groups, ccfg.layer, message, hook)

\* the driving loop has dispatched an event in the step
DispatchStep == cstate' # cstate \/ cframes' # cframes

\* C16: whenever a consumer processes an event, the synchronous and the
\* asynchronous handler of the event, given the same groups, channel layer
\* and hook, emit the same outbound events, issue the same group operations,
\* call the same hooks and end in the same way, and the consumer's outbound
\* events and group operations grow by exactly these.  The events that a
\* consumer is given next depend on its outbound events and on how its
\* handler ended only, so the two consumers stay in step on every sequence
\* of inbound events.
C16_SyncAsyncSame ==
    [][DispatchStep =>
          LET s == HandlerOf("sync", clast'.message, clast'.hook)
              a == HandlerOf("async", clast'.message, clast'.hook)
          IN /\ s.out = a.out
             /\ s.ops = a.ops
             /\ s.hooks = a.hooks
             /\ s.raised = a.raised
             /\ cout' = cout \o s.out
             /\ cops' = cops \o a.ops
             /\ craised' = a.raised]_vars

\* an asynchronous consumer with two groups was given a text frame and its
\* hook sent both text and bytes: it has emitted the accept and the text,
\* which is what the synchronous handler emits for the frame
C16_Witness ==
    /\ ccfg.variant = "async"
    /\ ccfg.groups = <<"g1", "g2">>
    /\ clast.message.type = "websocket.receive"
    /\ clast.hook.do = "send"
    /\ DOMAIN clast.hook.call = {"text_data", "bytes_data", "close"}
    /\ cops = << <<"group_add", "g1">>, <<"group_add", "g2">> >>
    /\ cout = << [type |-> "websocket.accept"],
                 [type |-> "websocket.send", text |-> Text1] >>
    /\ HandlerOf("sync", clast.message, clast.hook).out
          = << [type |-> "websocket.send", text |-> Text1] >>

\* the step is the handler of a receive event of a JSON consumer
JsonReceiveStep ==
    /\ ccfg.json
    /\ cframes' # cframes
    /\ clast'.message.type = "websocket.receive"

\* C17 (as stated): the handler of a frame that carries bytes ends with
\* ValueError without calling receive_json, and the handler of every frame
\* that carries text calls receive_json once.
C17_EveryTextHanded ==
    [][JsonReceiveStep =>
          IF "text" \notin DOMAIN clast'.message
          THEN craised' = "ValueError" /\ chooks' = chooks
          ELSE /\ Len(chooks') = Len(chooks) + 1
               /\ chooks'[Len(chooks')][1] = "receive_json"]_vars

\* C17 (amended): the handler of a frame that carries bytes, or empty text,
\* ends with the ValueError of the missing text section, with receive_json
\* not called and nothing emitted; the handler of a frame whose text is not
\* JSON ends with the decoder's error, with receive_json not called; the
\* handler of a frame whose text is JSON calls receive_json once, with the
\* decoded value.
C17_JsonTextHanded ==
    [][JsonReceiveStep =>
          LET m == clast'.message IN
          IF "text" \notin DOMAIN m \/ m.text = << >>
          THEN craised' = "ValueError" /\ chooks' = chooks /\ cout' = cout
          ELSE IF ~decode_json(m.text).ok
          THEN craised' = "JSONDecodeError" /\ chooks' = chooks /\ cout' = cout
          ELSE chooks' = Append(chooks, <<"receive_json", decode_json(m.text).val>>)]_vars

\* a synchronous JSON consumer was given a frame of bytes: its handler ended
\* with ValueError and the only hook called is connect
C17_Witness ==
    /\ ccfg.json /\ ccfg.variant = "sync"
    /\ clast.message.type = "websocket.receive"
    /\ "bytes" \in DOMAIN clast.message
    /\ craised = "ValueError"
    /\ cstate = "failed"
    /\ Len(chooks) = 1 /\ chooks[1][1] = "connect"

\* in the step, the handler of a receive or disconnect event has called the
\* application's hook, whose body does what `do` names
HookStep(do) ==
    /\ clast'.message.type \in {"websocket.receive", "websocket.disconnect"}
    /\ DispatchStep
    /\ Len(chooks') = Len(chooks) + 1
    /\ clast'.hook.do = do

\* the events emitted in the step
Emitted == SubSeq(cout', Len(cout) + 1, Len(cout'))

\* C18: a call of send with neither text_data nor bytes_data raises
\* ValueError and emits nothing, whatever the close flag; a call with both
\* emits the text and never the bytes.
C18_SendNeedsData ==
    [][HookStep("send") =>
          LET call == clast'.hook.call IN
          /\ ("text_data" \notin DOMAIN call /\ "bytes_data" \notin DOMAIN call)
                => craised' = "ValueError" /\ Emitted = << >>
          /\ ("text_data" \in DOMAIN call /\ "bytes_data" \in DOMAIN call)
                => /\ Len(Emitted) >= 1
                   /\ Emitted[1] = [type |-> "websocket.send", text |-> call.text_data]
                   /\ \A i \in 1..Len(Emitted) : "bytes" \notin DOMAIN Emitted[i]]_vars

\* the receive hook of a synchronous consumer called send with no data and
\* the close flag set: the handler ended with ValueError and only the accept
\* was ever emitted
C18_Witness ==
    /\ ccfg.variant = "sync"
    /\ clast.message.type = "websocket.receive"
    /\ Len(chooks) = 2
    /\ clast.hook.do = "send"
    /\ DOMAIN clast.hook.call = {"close"}
    /\ clast.hook.call.close = PyTrue
    /\ craised = "ValueError"
    /\ cout = << [type |-> "websocket.accept"] >>

\* the close event for a code: bare when the code is omitted or is True
CloseEvent(code) ==
    IF code = PyNone \/ code = PyTrue
    THEN [type |-> "websocket.close"]
    ELSE [type |-> "websocket.close", code |-> code]

\* the send event of a call of send that has text or bytes
SendEvent(call) ==
    IF "text_data" \in DOMAIN call
    THEN [type |-> "websocket.send", text |-> call.text_data]
    ELSE [type |-> "websocket.send", bytes |-> call.bytes_data]

\* C19: a call of close emits exactly one close event, bare when the code is
\* omitted or is True and carrying the code otherwise; a call of send with
\* data emits the send event, followed by exactly one such close event when
\* the close flag is truthy and by nothing when it is falsy.
C19_CloseOnce ==
    [][/\ HookStep("close") => Emitted = << CloseEvent(clast'.hook.code) >>
       /\ HookStep("send") =>
             LET call == clast'.hook.call IN
             ("text_data" \in DOMAIN call \/ "bytes_data" \in DOMAIN call) =>
                 Emitted = IF Truthy(call.close)
                           THEN << SendEvent(call), CloseEvent(call.close) >>
                           ELSE << SendEvent(call) >>
       /\ HookStep("send_json") =>
             Emitted = << [type |-> "websocket.send",
                           text |-> encode_json(clast'.hook.content)] >>
                       \o (IF Truthy(clast'.hook.close)
                           THEN << CloseEvent(clast'.hook.close) >> ELSE << >>)]_vars

\* the receive hook of an asynchronous consumer called send with text and
\* close=True: the text was sent and then one bare close
C19_Witness ==
    /\ ccfg.variant = "async"
    /\ clast.message.type = "websocket.receive"
    /\ Len(chooks) = 2
    /\ clast.hook.do = "send"
    /\ clast.hook.call.close = PyTrue
    /\ cout = << [type |-> "websocket.accept"],
                 [type |-> "websocket.send", text |-> Text1],
                 [type |-> "websocket.close"] >>

\* C20: a call of the middleware with a scope that has no session raises
\* ValueError, does not call the inner application and leaves the scope as
\* it is; a call with a scope that has a session calls the inner application
\* once and adds at most the user key; no step removes a key of the scope or
\* changes the value of one, an existing user included; and auth.get_user is
\* called at most once for the scope.
C20_AuthScopeContract ==
    [][/\ ncalls' # ncalls =>
             IF "session" \notin DOMAIN scope
             THEN /\ araised' = "ValueError"
                  /\ inner_calls' = inner_calls
                  /\ scope' = scope
             ELSE /\ araised' = "none"
                  /\ inner_calls' = inner_calls + 1
                  /\ DOMAIN scope' = DOMAIN scope \cup {"user"}
       /\ \A k \in DOMAIN scope : k \in DOMAIN scope' /\ scope'[k] = scope[k]
       /\ lookups' <= 1]_vars

\* the middleware was called twice with a scope that has a session and had
\* no user, and the user was used twice: the inner application was called
\* once for each call, the user key holds the lazy object of the first call,
\* and the user was looked up once
C20_Witness ==
    /\ astate = "called"
    /\ ncalls = 2 /\ inner_calls = 2
    /\ nreads = 2 /\ lookups = 1
    /\ DOMAIN scope = {"session", "user", "_cached_user"}
    /\ scope["user"] = "lazy"
    /\ wrapped = auth_get_user(scope["session"])
    /\ scope["_cached_user"] = wrapped

====
